---- MODULE Spec2Model ----
(***************************************************************************)
(* Model of app.py, the Streamlit page "NCBI GEO Single-Cell Dataset       *)
(* Explorer": search_geo, fetch_geo_metadata, process_geo_metadata, the    *)
(* "Fetch Datasets" button handler, the st.cache_data memoisation of the   *)
(* three functions, the table kept in st.session_state["data"] and the     *)
(* sidebar filters applied to it.                                          *)
(*                                                                         *)
(* Python strings that the code inspects (summary, taxon, filter texts)    *)
(* are sequences of one-character strings, so that lower(), "in",          *)
(* "".join, split() and " ".join are computed.  Strings the code only      *)
(* copies (title, accession, identifiers) are TLA+ strings.                *)
(***************************************************************************)
EXTENDS Naturals, Sequences, FiniteSets, TLC

VARIABLES
    pc,                  \* position of the script: "idle", "esearch", "esummary", "render", "aborted"
                         \* ("extract", "extracted" when process_geo_metadata is run on its own)
    retmax,              \* sidebar number_input "Number of Results to Fetch"
    chunk_size,          \* chunk_size of fetch_geo_metadata
    data,                \* st.session_state["data"]: None or the processed table
    search_filter,       \* st.session_state["search_filter"]
    species_filter,      \* st.session_state["species_filter"]
    longitudinal_filter, \* st.session_state["longitudinal_filter"]
    shown,               \* the table st.dataframe(df) displays, None when none is displayed
    searchCache,         \* st.cache_data of search_geo: retmax -> idlist
    fetchCache,          \* st.cache_data of fetch_geo_metadata: geo_ids -> results
    processCache,        \* st.cache_data of process_geo_metadata: the mappings already processed
    geo_ids,             \* local of the handler / argument of fetch_geo_metadata
    i,                   \* loop variable of fetch_geo_metadata
    results,             \* local of fetch_geo_metadata (argument of process_geo_metadata)
    log                  \* what the current script run did, in order: pairs <<event, identifiers>>

vars == <<pc, retmax, chunk_size, data, search_filter, species_filter,
          longitudinal_filter, shown, searchCache, fetchCache, processCache,
          geo_ids, i, results, log>>

(***************************************************************************)
(* Bounds of the model.                                                    *)
(***************************************************************************)
MaxIds == 3          \* identifiers an esearch answer draws from
MaxSessionIds == 2   \* the same, where two result-count caps are in play
MaxChunk == 2        \* largest chunk_size
MaxEntries == 2      \* entries of a mapping given to process_geo_metadata on its own

\* Python's None: a value that is no table (a table is a sequence of rows)
None == <<[none |-> TRUE]>>

(***************************************************************************)
(* Strings.                                                                *)
(***************************************************************************)
UpperLetters == <<"A", "B", "C", "D", "E", "F", "G", "H", "I", "J", "K", "L", "M", "N", "O", "P", "Q", "R", "S", "T", "U", "V", "W", "X", "Y", "Z">>
LowerLetters == <<"a", "b", "c", "d", "e", "f", "g", "h", "i", "j", "k", "l", "m", "n", "o", "p", "q", "r", "s", "t", "u", "v", "w", "x", "y", "z">>
Whitespace == {" "}

\* str.lower() on one character
LowerChar(c) ==
    IF \E n \in 1..26 : UpperLetters[n] = c
    THEN LowerLetters[CHOOSE n \in 1..26 : UpperLetters[n] = c]
    ELSE c

\* str.lower()
Lower(s) == [n \in 1..Len(s) |-> LowerChar(s[n])]

\* t in s
Contains(s, t) ==
    /\ Len(t) <= Len(s)
    /\ \E k \in 0..(Len(s) - Len(t)) : SubSeq(s, k + 1, k + Len(t)) = t

\* "".join(parts)
RECURSIVE JoinEmpty(_)
JoinEmpty(parts) ==
    IF parts = <<>> THEN <<>> ELSE Head(parts) \o JoinEmpty(Tail(parts))

\* s.split(): the maximal runs of non-whitespace characters; cur is the run being read
RECURSIVE Split(_, _)
Split(s, cur) ==
    IF s = <<>> THEN (IF cur = <<>> THEN <<>> ELSE <<cur>>)
    ELSE IF Head(s) \in Whitespace
         THEN (IF cur = <<>> THEN Split(Tail(s), <<>>)
                             ELSE <<cur>> \o Split(Tail(s), <<>>))
         ELSE Split(Tail(s), Append(cur, Head(s)))

\* " ".join(words)
RECURSIVE JoinSpace(_)
JoinSpace(words) ==
    IF words = <<>> THEN <<>>
    ELSE IF Len(words) = 1 THEN words[1]
    ELSE words[1] \o <<" ">> \o JoinSpace(Tail(words))

KwSingleCell == <<"s", "i", "n", "g", "l", "e", "-", "c", "e", "l", "l">>
KwScrnaseq == <<"s", "c", "r", "n", "a", "s", "e", "q">>
KwScrnaSeq == <<"s", "c", "r", "n", "a", "-", "s", "e", "q">>
KwLongitudinal == <<"l", "o", "n", "g", "i", "t", "u", "d", "i", "n", "a", "l">>
KwTimePoints == <<"t", "i", "m", "e", " ", "p", "o", "i", "n", "t", "s">>
KwDay == <<"d", "a", "y">>
KwWeek == <<"w", "e", "e", "k">>
KwMonth == <<"m", "o", "n", "t", "h">>

InclusionTerms == {KwSingleCell, KwScrnaseq, KwScrnaSeq}
LongitudinalKeywords == {KwLongitudinal, KwTimePoints, KwDay, KwWeek, KwMonth}

NA == <<"N", "/", "A">>
Unknown == <<"U", "n", "k", "n", "o", "w", "n">>

(***************************************************************************)
(* The remote repository: sample records.  A record is a function from     *)
(* the field names it has to their values; a missing field is not in its   *)
(* DOMAIN.                                                                 *)
(***************************************************************************)
SumSingleCellDay == <<"S", "i", "n", "g", "l", "e", "-", "C", "e", "l", "l", " ", "d", "a", "y", " ", "3">>
SumScrnaseq == <<"s", "c", "R", "N", "A", "s", "e", "q", " ", "T">>
SumBulkWeek == <<"b", "u", "l", "k", " ", "R", "N", "A", " ", "w", "e", "e", "k">>
SumScrnaSeqMonth == <<"S", "C", "R", "N", "A", "-", "S", "E", "Q", " ", "M", "o", "n", "t", "h">>
SumSingleNoHyphen == <<"s", "i", "n", "g", "l", "e", " ", "c", "e", "l", "l">>
TaxHuman == <<"H", "o", "m", "o", " ", " ", "s", "a", "p", "i", "e", "n", "s", " ">>
TaxMus == <<"M", "u", "s">>
TaxMusculus == <<"m", "u", "s", "c", "u", "l", "u", "s">>

RecFull == [title |-> "T1", summary |-> SumSingleCellDay, accession |-> "GSE1", taxon |-> <<TaxHuman>>]
RecNoTitle == [summary |-> SumScrnaseq, accession |-> "GSE2", taxon |-> <<TaxMus, TaxMusculus>>]
RecBulk == [title |-> "T3", summary |-> SumBulkWeek, accession |-> "GSE3"]
RecNoAccession == [title |-> "T4", summary |-> SumScrnaSeqMonth, taxon |-> <<>>]
RecNoSummary == [title |-> "T5", accession |-> "GSE5", taxon |-> <<TaxMus>>]
RecNoHyphen == [title |-> "T6", summary |-> SumSingleNoHyphen, accession |-> "GSE6", taxon |-> <<<<" ">>>>]
RecBlankTaxon == [title |-> "T7", summary |-> SumScrnaseq, accession |-> "GSE7", taxon |-> <<<<" ">>>>]

RecordSamples == {RecFull, RecNoTitle, RecBulk, RecNoAccession, RecNoSummary, RecNoHyphen, RecBlankTaxon}

(***************************************************************************)
(* dict: a sequence of entries [k, v] in insertion order.                  *)
(***************************************************************************)
Keys(d) == {d[n].k : n \in 1..Len(d)}

KeySeq(d) == [n \in 1..Len(d) |-> d[n].k]

Lookup(d, key) == d[CHOOSE n \in 1..Len(d) : d[n].k = key].v

\* fault: a new key is put first instead of last
DictSetFront(d, key, value) ==
    IF key \in Keys(d)
    THEN [n \in 1..Len(d) |-> IF d[n].k = key THEN [k |-> key, v |-> value] ELSE d[n]]
    ELSE <<[k |-> key, v |-> value]>> \o d

\* d[key] = value: an existing key keeps its position, a new key goes last
DictSet(d, key, value) ==
    IF key \in Keys(d)
    THEN [n \in 1..Len(d) |-> IF d[n].k = key THEN [k |-> key, v |-> value] ELSE d[n]]
    ELSE Append(d, [k |-> key, v |-> value])

\* d.update(other)
RECURSIVE DictUpdate(_, _)
DictUpdate(d, other) ==
    IF other = <<>> THEN d
    ELSE DictUpdate(DictSet(d, Head(other).k, Head(other).v), Tail(other))

\* value.get(field, default)
Get(value, field, default) ==
    IF field \in DOMAIN value THEN value[field] ELSE default

(***************************************************************************)
(* process_geo_metadata                                                    *)
(***************************************************************************)
\* fault: the summary is not lowercased before the test
IncludedCaseSensitive(summary) ==
    \E term \in InclusionTerms : Contains(summary, term)

\* any(term in summary.lower() for term in [...])
Included(summary) ==
    \E term \in InclusionTerms : Contains(Lower(summary), term)

\* fault: the no-match value is not "No"
LongitudinalUnknown(summary) ==
    IF \E keyword \in LongitudinalKeywords : Contains(Lower(summary), keyword)
    THEN "Yes" ELSE "Unknown"

\* lines 76-78
Longitudinal(summary) ==
    IF \E keyword \in LongitudinalKeywords : Contains(Lower(summary), keyword)
    THEN "Yes" ELSE "No"

Species(value) ==
    LET species_list == Get(value, "taxon", <<>>)
    IN  IF species_list # <<>>
        THEN JoinSpace(Split(JoinEmpty(species_list), <<>>))
        ELSE Unknown

\* the dict appended to datasets for one record
DatasetRow(value) ==
    LET summary == Get(value, "summary", NA)
    IN  [GEONumber    |-> Get(value, "accession", "N/A"),
         Title        |-> Get(value, "title", "N/A"),
         Species      |-> Species(value),
         Longitudinal |-> Longitudinal(summary),
         Summary      |-> summary]

\* whether the loop body reaches datasets.append for this item
Survives(key, value) ==
    /\ key # "uids"
    /\ Included(Get(value, "summary", NA))

RECURSIVE process_geo_metadata(_)
process_geo_metadata(geo_metadata) ==
    IF geo_metadata = <<>> THEN <<>>
    ELSE LET key == Head(geo_metadata).k
             value == Head(geo_metadata).v
             rest == process_geo_metadata(Tail(geo_metadata))
         IN  IF Survives(key, value) THEN <<DatasetRow(value)>> \o rest ELSE rest

(***************************************************************************)
(* Identifiers, the remote service and the widget values.                  *)
(***************************************************************************)
IdStr == <<"1", "2", "3", "4", "5", "6">>
Ids == {IdStr[n] : n \in 1..MaxIds}
SessionIds == {IdStr[n] : n \in 1..MaxSessionIds}

\* the esearch idlists over a set of identifiers: each identifier at most once
ListsOver(ids) ==
    {s \in UNION {[1..n -> ids] : n \in 0..Cardinality(ids)} :
        \A a, b \in 1..Len(s) : a # b => s[a] # s[b]}

IdLists == ListsOver(Ids)
SessionIdLists == ListsOver(SessionIds)

\* the record the repository holds for an identifier
Catalogue(id) ==
    CASE id = "1" -> RecFull
      [] id = "2" -> RecNoTitle
      [] id = "3" -> RecBulk
      [] id = "4" -> RecNoAccession
      [] OTHER -> RecNoSummary

StatusCodes == {200, 429, 500}
\* a response body: a JSON document with its "result" object, or text that is no JSON
Json(result) == [json |-> TRUE, result |-> result]
NotJson == [json |-> FALSE, result |-> <<>>]

\* the "result" object of an esummary answer that recognises the identifiers of known:
\* the "uids" list, then one record per identifier, in the order of the request
SummaryResult(known) ==
    <<[k |-> "uids", v |-> [uids |-> known]]>> \o [n \in 1..Len(known) |-> [k |-> known[n], v |-> Catalogue(known[n])]]

\* the bodies an esummary request for chunk may be answered with
SummaryBodies(chunk) ==
    {Json(SummaryResult(SelectSeq(chunk, LAMBDA id : id \in S))) : S \in SUBSET Keys([n \in 1..Len(chunk) |-> [k |-> chunk[n]]])}
        \cup {NotJson}

RetmaxValues == {1000, 10}
SearchFilters == {<<>>, <<"D", "A", "Y">>}
SpeciesFilters == {<<>>, <<"m", "u", "s">>}
LongitudinalOptions == {"All", "Yes", "No"}

(***************************************************************************)
(* Filters applied to the stored table (script lines 143-149).             *)
(***************************************************************************)
\* Series.str.contains(pat, case=False) for a pattern without regex metacharacters
StrContains(s, pat) == Contains(Lower(s), Lower(pat))

\* fault: each filter is applied to the stored table instead of the result of the one before
ApplyFiltersOnce(df, sf, spf, lf) ==
    LET df1 == IF sf # <<>> THEN SelectSeq(df, LAMBDA r : StrContains(r.Summary, sf)) ELSE df
        df2 == IF spf # <<>> THEN SelectSeq(df, LAMBDA r : StrContains(r.Species, spf)) ELSE df1
        df3 == IF lf # "All" THEN SelectSeq(df, LAMBDA r : r.Longitudinal = lf) ELSE df2
    IN  df3

ApplyFilters(df, sf, spf, lf) ==
    LET df1 == IF sf # <<>> THEN SelectSeq(df, LAMBDA r : StrContains(r.Summary, sf)) ELSE df
        df2 == IF spf # <<>> THEN SelectSeq(df1, LAMBDA r : StrContains(r.Species, spf)) ELSE df1
        df3 == IF lf # "All" THEN SelectSeq(df2, LAMBDA r : r.Longitudinal = lf) ELSE df2
    IN  df3

\* lines 128-153: what the script displays below the button
Displayed(tbl, sf, spf, lf) ==
    IF tbl # None THEN ApplyFilters(tbl, sf, spf, lf) ELSE None

(***************************************************************************)
(* st.cache_data                                                           *)
(***************************************************************************)
\* fault: search_geo is not memoised
SearchCachedNever(rm) == FALSE

SearchCached(rm) == rm \in DOMAIN searchCache
FetchCached(ids) == ids \in DOMAIN fetchCache
ProcessCached(md) == md \in processCache

(***************************************************************************)
(* requests                                                                *)
(***************************************************************************)
\* fault: raise_for_status() is left out
RaisesNever(status) == FALSE

\* response.raise_for_status() raises HTTPError
RaisesForStatus(status) == status >= 400

(***************************************************************************)
(* fetch_geo_metadata                                                      *)
(***************************************************************************)
Min(a, b) == IF a <= b THEN a ELSE b

\* geo_ids[j:j + chunk_size]
Chunk(ids, j) == SubSeq(ids, j + 1, Min(j + chunk_size, Len(ids)))

\* fault: results = chunk_results instead of results.update(chunk_results)
MergeChunkReplace(r, chunk_results) == chunk_results

\* results.update(chunk_results)
MergeChunk(r, chunk_results) == DictUpdate(r, chunk_results)

\* the next value of the loop variable (range(0, len(geo_ids), chunk_size))
NextIndex(j) == j + chunk_size

\* fault: break instead of continue
IndexAfterErrorBreak(ids, j) == Len(ids)

\* the except clauses end in "continue": the loop goes on with the next index
IndexAfterError(ids, j) == NextIndex(j)

\* what the try block leaves in the log after a successful merge: line 49 is reached
AfterMerge(lg, chunk_results) ==
    lg \o <<<<"merged", KeySeq(chunk_results)>>, <<"sleep", <<>>>>>>

\* what an except clause leaves in the log: st.error, then continue
AfterError(lg, chunk) == Append(lg, <<"error", chunk>>)

(***************************************************************************)
(* The script.                                                             *)
(***************************************************************************)
Init ==
    /\ pc = "idle"
    /\ retmax = 1000
    /\ chunk_size \in 1..MaxChunk    \* the default chunk_size=50, scaled to the lists of the model
    /\ data = None
    /\ search_filter = <<>>
    /\ species_filter = <<>>
    /\ longitudinal_filter = "All"
    /\ shown = None
    /\ searchCache = <<>>
    /\ fetchCache = <<>>
    /\ processCache = {}
    /\ geo_ids = <<>>
    /\ i = 0
    /\ results = <<>>
    /\ log = <<>>

Filters == <<search_filter, species_filter, longitudinal_filter>>

\* lines 120-125: process_geo_metadata(geo_metadata) is stored in the session state
StoreTable(ids, md, lg, fc) ==
    /\ data' = process_geo_metadata(md)
    /\ processCache' = processCache \cup {md}
    /\ fetchCache' = fc
    /\ geo_ids' = ids
    /\ results' = md
    /\ log' = (IF ProcessCached(md) THEN lg ELSE Append(lg, <<"extract", <<>>>>)) \o <<<<"stored", <<>>>>>>
    /\ pc' = "render"
    /\ UNCHANGED i

\* the loop of fetch_geo_metadata at index j: the next request, or the return
Loop(ids, j, r, lg) ==
    IF j < Len(ids)
    THEN /\ geo_ids' = ids
         /\ i' = j
         /\ results' = r
         /\ log' = Append(lg, <<"esummary", Chunk(ids, j)>>)
         /\ pc' = "esummary"
         /\ UNCHANGED <<data, fetchCache, processCache>>
    ELSE StoreTable(ids, r, Append(lg, <<"return", <<>>>>), (ids :> r) @@ fetchCache)

\* lines 115-125: the handler once search_geo has returned ids
AfterSearch(ids, lg) ==
    IF ids = <<>>
    THEN /\ log' = Append(lg, <<"warning", <<>>>>)
         /\ pc' = "render"
         /\ geo_ids' = ids
         /\ UNCHANGED <<data, fetchCache, processCache, i, results>>
    ELSE IF FetchCached(ids)
         THEN StoreTable(ids, fetchCache[ids], lg, fetchCache)
         ELSE Loop(ids, 0, <<>>, lg)

\* line 112: the button is pressed; the script runs to the esearch request, or, when
\* search_geo is answered from its cache, on to the next request or to the end
PressFetch ==
    /\ pc \in {"idle", "aborted"}
    /\ IF SearchCached(retmax)
       THEN AfterSearch(searchCache[retmax], <<<<"press", <<>>>>>>)
       ELSE /\ log' = <<<<"press", <<>>>>, <<"esearch", <<>>>>>>
            /\ pc' = "esearch"
            /\ UNCHANGED <<data, fetchCache, processCache, geo_ids, i, results>>
    /\ UNCHANGED <<retmax, chunk_size, search_filter, species_filter,
                   longitudinal_filter, shown, searchCache>>

\* lines 21-24: the esearch answer arrives
SearchResponse(status, idlist) ==
    /\ pc = "esearch"
    /\ IF RaisesForStatus(status)
       THEN \* the HTTPError leaves search_geo and the script: the run ends
            /\ pc' = "aborted"
            /\ shown' = None
            /\ log' = log \o <<<<"status", <<status>>>>, <<"raise", <<>>>>>>
            /\ UNCHANGED <<data, searchCache, fetchCache, processCache, geo_ids, i, results>>
       ELSE /\ searchCache' = (retmax :> idlist) @@ searchCache
            /\ AfterSearch(idlist, Append(log, <<"status", <<status>>>>))
            /\ UNCHANGED shown
    /\ UNCHANGED <<retmax, chunk_size, search_filter, species_filter,
                   longitudinal_filter>>

\* lines 39-49: the esummary answer for the chunk at index i arrives
ChunkResponse(status, body) ==
    /\ pc = "esummary"
    /\ IF RaisesForStatus(status)
       THEN Loop(geo_ids, IndexAfterError(geo_ids, i), results, AfterError(log, Chunk(geo_ids, i)))
       ELSE IF body = NotJson
            THEN Loop(geo_ids, IndexAfterError(geo_ids, i), results, AfterError(log, Chunk(geo_ids, i)))
            ELSE Loop(geo_ids, NextIndex(i), MergeChunk(results, body.result), AfterMerge(log, body.result))
    /\ UNCHANGED <<retmax, chunk_size, search_filter, species_filter,
                   longitudinal_filter, shown, searchCache>>

\* lines 128-166: the rest of the script run; its locals are gone when it ends
Render ==
    /\ pc = "render"
    /\ shown' = Displayed(data, search_filter, species_filter, longitudinal_filter)
    /\ pc' = "idle"
    /\ geo_ids' = <<>>
    /\ i' = 0
    /\ results' = <<>>
    /\ log' = <<>>
    /\ UNCHANGED <<retmax, chunk_size, data, search_filter, species_filter,
                   longitudinal_filter, searchCache, fetchCache, processCache>>

\* a widget change reruns the script with the button not pressed
Rerun(sf, spf, lf) ==
    /\ shown' = Displayed(data, sf, spf, lf)
    /\ pc' = "idle"
    /\ log' = <<>>
    /\ UNCHANGED <<chunk_size, data, searchCache, fetchCache, processCache,
                   geo_ids, i, results>>

\* line 109: the number input is changed
SetRetmax(rm) ==
    /\ pc \in {"idle", "aborted"}
    /\ rm # retmax
    /\ retmax' = rm
    /\ Rerun(search_filter, species_filter, longitudinal_filter)
    /\ UNCHANGED <<search_filter, species_filter, longitudinal_filter>>

\* lines 130-140: a filter widget is changed (the widgets exist when the table was displayed)
SetSearchFilter(f) ==
    /\ pc = "idle" /\ shown # None
    /\ f # search_filter
    /\ search_filter' = f
    /\ Rerun(f, species_filter, longitudinal_filter)
    /\ UNCHANGED <<retmax, species_filter, longitudinal_filter>>

SetSpeciesFilter(f) ==
    /\ pc = "idle" /\ shown # None
    /\ f # species_filter
    /\ species_filter' = f
    /\ Rerun(search_filter, f, longitudinal_filter)
    /\ UNCHANGED <<retmax, search_filter, longitudinal_filter>>

SetLongitudinalFilter(f) ==
    /\ pc = "idle" /\ shown # None
    /\ f # longitudinal_filter
    /\ longitudinal_filter' = f
    /\ Rerun(search_filter, species_filter, f)
    /\ UNCHANGED <<retmax, search_filter, species_filter>>

\* the answers of the two endpoints: an answer with an error status carries no JSON
SearchAnswers(lists) ==
    {a \in StatusCodes \X lists : RaisesForStatus(a[1]) => a[2] = <<>>}

SummaryAnswers(chunk) ==
    {a \in StatusCodes \X SummaryBodies(chunk) : RaisesForStatus(a[1]) => a[2] = NotJson}

\* esummary recognises every identifier of the chunk, or the request fails
PlainSummaryAnswers(chunk) ==
    {a \in SummaryAnswers(chunk) : a[2] \in {Json(SummaryResult(chunk)), NotJson}}

\* the fetch pipeline under one result-count cap, the widgets left as they are
Next ==
    \/ PressFetch
    \/ \E a \in SearchAnswers(IdLists) : SearchResponse(a[1], a[2])
    \/ \E a \in SummaryAnswers(Chunk(geo_ids, i)) : ChunkResponse(a[1], a[2])
    \/ Render

Spec == Init /\ [][Next]_vars

\* a session in which the result-count cap is changed between fetches
NextSession ==
    \/ PressFetch
    \/ \E a \in SearchAnswers(SessionIdLists) : SearchResponse(a[1], a[2])
    \/ \E a \in PlainSummaryAnswers(Chunk(geo_ids, i)) : ChunkResponse(a[1], a[2])
    \/ Render
    \/ \E rm \in RetmaxValues : SetRetmax(rm)

SpecSession == Init /\ [][NextSession]_vars

\* such a session with the filter widgets in use; esummary answers 200 and recognises
\* every identifier of the chunk
NextUI ==
    \/ PressFetch
    \/ \E a \in SearchAnswers(SessionIdLists) : SearchResponse(a[1], a[2])
    \/ ChunkResponse(200, Json(SummaryResult(Chunk(geo_ids, i))))
    \/ Render
    \/ \E rm \in RetmaxValues : SetRetmax(rm)
    \/ \E f \in SearchFilters : SetSearchFilter(f)
    \/ \E f \in SpeciesFilters : SetSpeciesFilter(f)
    \/ \E f \in LongitudinalOptions : SetLongitudinalFilter(f)

SpecUI == Init /\ [][NextUI]_vars

(***************************************************************************)
(* process_geo_metadata on its own: the argument is any mapping of at most *)
(* MaxEntries entries, whose keys are identifiers or "uids".               *)
(***************************************************************************)
MetadataKeys == Ids \cup {"uids"}

EntryValues(key) == IF key = "uids" THEN {[uids |-> <<>>]} ELSE RecordSamples

Mappings ==
    UNION {
        {d \in [1..n -> UNION {{[k |-> key, v |-> value] : value \in EntryValues(key)} : key \in MetadataKeys}] :
            \A a, b \in 1..n : a # b => d[a].k # d[b].k}
        : n \in 0..MaxEntries}

InitExtract ==
    /\ pc = "extract"
    /\ results \in Mappings
    /\ data = None
    /\ retmax = 1000
    /\ chunk_size = MaxChunk
    /\ search_filter = <<>>
    /\ species_filter = <<>>
    /\ longitudinal_filter = "All"
    /\ shown = None
    /\ searchCache = <<>>
    /\ fetchCache = <<>>
    /\ processCache = {}
    /\ geo_ids = <<>>
    /\ i = 0
    /\ log = <<>>

\* data = process_geo_metadata(results)
Extract ==
    /\ pc = "extract"
    /\ data' = process_geo_metadata(results)
    /\ pc' = "extracted"
    /\ UNCHANGED <<retmax, chunk_size, search_filter, species_filter, longitudinal_filter,
                   shown, searchCache, fetchCache, processCache, geo_ids, i, results,
                   log>>

NextExtract == Extract

SpecExtract == InitExtract /\ [][NextExtract]_vars

(***************************************************************************)
(* Properties.                                                             *)
(***************************************************************************)
Range(seq) == {seq[n] : n \in 1..Len(seq)}

\* the events of one kind in a log, in order
Events(lg, kind) == SelectSeq(lg, LAMBDA e : e[1] = kind)

HasEvent(lg, kind) == \E n \in 1..Len(lg) : lg[n][1] = kind

\* the identifiers the successful esummary answers of this run contained
Served == UNION {Range(e[2]) : e \in Range(Events(log, "merged"))} \ {"uids"}

\* the identifiers of the chunks whose request failed in this run
FailedIds == UNION {Range(e[2]) : e \in Range(Events(log, "error"))}

\* fetch_geo_metadata ran in this script run and has returned
Returned == pc = "render" /\ HasEvent(log, "return")

\* C1: when fetch_geo_metadata returns, the merged mapping holds exactly one entry (the
\* record the service sent) for each identifier a successful chunk's answer contained,
\* and no entry for an identifier of a chunk whose request failed.
C1_MergedExactlyOnce ==
    Returned =>
        /\ Keys(results) \ {"uids"} = Served
        /\ \A a, b \in 1..Len(results) : a # b => results[a].k # results[b].k
        /\ \A n \in 1..Len(results) :
              results[n].k # "uids" => results[n].v = Catalogue(results[n].k)
        /\ Keys(results) \cap FailedIds = {}

C1_Witness ==
    /\ Returned
    /\ Len(geo_ids) = 3
    /\ HasEvent(log, "error")
    /\ Cardinality(Served) = 2
    /\ Len(Events(log, "merged")) = 2

\* C2: the rows of the stored table are, in the order of the Search result, exactly the
\* rows of the identifiers that lie in a successfully fetched chunk, were returned by
\* the service and pass the inclusion predicate; none comes from a failed chunk.
C2_RowsFollowSearchOrder ==
    Returned =>
        LET kept == SelectSeq(geo_ids, LAMBDA id :
                        /\ id \in Served
                        /\ id \notin FailedIds
                        /\ \E term \in InclusionTerms :
                              Contains(Lower(Get(Catalogue(id), "summary", NA)), term))
        IN  data = [n \in 1..Len(kept) |-> DatasetRow(Catalogue(kept[n]))]

C2_Witness ==
    /\ Returned
    /\ geo_ids = <<"2", "3", "1">>
    /\ HasEvent(log, "error")
    /\ Len(data) = 2
    /\ data[1].GEONumber = "GSE2"

\* the last esearch answer of this run was not a 2xx answer
SearchFailed(lg) ==
    /\ HasEvent(lg, "status")
    /\ Events(lg, "status")[1][2][1] \notin 200..299

\* C3: a non-2xx answer to the Search request aborts the fetch: the error is raised to
\* the caller, no summary request is issued, no table is stored, and the table in the
\* session state is the one held before the button press.
C3_SearchFailureAborts ==
    [][/\ (pc' = "esearch" => data' = data)
       /\ (pc = "esearch" /\ SearchFailed(log')) =>
              /\ pc' = "aborted"
              /\ HasEvent(log', "raise")
              /\ ~HasEvent(log', "esummary")
              /\ ~HasEvent(log', "stored")
              /\ data' = data
              /\ fetchCache' = fetchCache]_vars

C3_Witness ==
    /\ pc = "aborted"
    /\ SearchFailed(log)
    /\ data # None
    /\ Len(data) = 2

\* the chunks requested in this run, in order
Requests == [n \in 1..Len(Events(log, "esummary")) |-> Events(log, "esummary")[n][2]]

\* the contiguous partition of ids into chunks of size c, the last one possibly shorter
Partition(ids, c) ==
    [n \in 1..((Len(ids) + c - 1) \div c) |->
        [m \in 1..(IF n * c <= Len(ids) THEN c ELSE Len(ids) - (n - 1) * c) |-> ids[(n - 1) * c + m]]]

\* C4: whatever chunks fail, the summary requests of fetch_geo_metadata are the
\* contiguous partition of the list into chunks of the chunk size, one request per chunk
\* in order: none is repeated, none after a failed one is left out, and the function
\* returns a mapping.
C4_OneRequestPerChunk ==
    /\ (pc = "esummary" =>
            /\ Requests = SubSeq(Partition(geo_ids, chunk_size), 1, Len(Requests))
            /\ Len(Requests) <= Len(Partition(geo_ids, chunk_size)))
    /\ (Returned =>
            /\ Requests = Partition(geo_ids, chunk_size)
            /\ Len(Events(log, "merged")) + Len(Events(log, "error")) = Len(Requests)
            /\ geo_ids \in DOMAIN fetchCache
            /\ fetchCache[geo_ids] = results)

C4_Witness ==
    /\ Returned
    /\ Len(geo_ids) = 3
    /\ chunk_size = 2
    /\ Len(Events(log, "error")) = 1
    /\ Events(log, "error")[1][2] = SubSeq(geo_ids, 1, 2)
    /\ Len(Requests) = 2

\* C5: between two consecutive summary requests there is a delay, whether the earlier
\* request succeeded or failed.
C5_DelayBetweenRequests ==
    \A a, b \in 1..Len(log) :
        (a < b /\ log[a][1] = "esummary" /\ log[b][1] = "esummary") =>
            \E n \in (a + 1)..(b - 1) : log[n][1] = "sleep"

C7_StoredTableIsOfThisFetch ==
    (pc = "render" /\ geo_ids = <<>>) => (data = None \/ data = <<>>)

\* the entries of a mapping that are records whose lowercased summary holds a term
HasTerm(value) ==
    /\ "summary" \in DOMAIN value
    /\ \/ Contains(Lower(value.summary), KwSingleCell)
       \/ Contains(Lower(value.summary), KwScrnaseq)
       \/ Contains(Lower(value.summary), KwScrnaSeq)

Surviving(md) == SelectSeq(md, LAMBDA e : e.k # "uids" /\ HasTerm(e.v))

\* C8: a record is in the output table if and only if its lowercased summary contains
\* "single-cell", "scrnaseq" or "scrna-seq"; a record without one (or without a summary)
\* is dropped, and the "uids" key yields no row.
C8_InclusionPredicate ==
    pc = "extracted" =>
        /\ Len(data) = Len(Surviving(results))
        /\ \A n \in 1..Len(data) : data[n].Summary = Surviving(results)[n].v.summary

C8_Witness ==
    /\ pc = "extracted"
    /\ Len(results) = 2
    /\ Len(data) = 1
    /\ \E a, b \in 1..2 :
          /\ results[a].k # "uids"
          /\ "summary" \notin DOMAIN results[a].v
          /\ results[b].k # "uids"
          /\ "summary" \in DOMAIN results[b].v
          /\ Contains(Lower(results[b].v.summary), KwSingleCell)

\* C9: every row has a value in each of the five fields: the value of the record, or
\* the sentinel "N/A" / "Unknown" when the record lacks the field; Longitudinal Study
\* is "Yes" or "No".
C9_EveryFieldDefined ==
    pc = "extracted" =>
        \A n \in 1..Len(data) :
            LET value == Surviving(results)[n].v
            IN  /\ DOMAIN data[n] = {"GEONumber", "Title", "Species", "Longitudinal", "Summary"}
                /\ data[n].Longitudinal \in {"Yes", "No"}
                /\ data[n].GEONumber = (IF "accession" \in DOMAIN value THEN value.accession ELSE "N/A")
                /\ data[n].Title = (IF "title" \in DOMAIN value THEN value.title ELSE "N/A")
                /\ (("taxon" \notin DOMAIN value \/ value.taxon = <<>>) <=> data[n].Species = Unknown)
                /\ data[n].Summary = value.summary

C9_Witness ==
    /\ pc = "extracted"
    /\ Len(data) = 2
    /\ data[1].Title = "N/A"
    /\ data[1].Longitudinal = "No"
    /\ data[2].GEONumber = "N/A"
    /\ data[2].Species = Unknown

\* a row satisfies the three filters
PassesFilters(r) ==
    /\ search_filter # <<>> => Contains(Lower(r.Summary), Lower(search_filter))
    /\ species_filter # <<>> => Contains(Lower(r.Species), Lower(species_filter))
    /\ longitudinal_filter # "All" => r.Longitudinal = longitudinal_filter

\* C10: changing a filter leaves the stored table as it is; the displayed table is the
\* stored table restricted, in order, to the rows that satisfy all the filters, and is
\* the stored table when the filters are at their defaults.
C10_FiltersLeaveStoredTable ==
    /\ [](pc = "idle" /\ shown # None =>
            /\ data # None
            /\ shown = SelectSeq(data, PassesFilters)
            /\ (Filters = <<<<>>, <<>>, "All">> => shown = data))
    /\ [][Filters' # Filters => data' = data]_vars

C10_Witness ==
    /\ pc = "idle"
    /\ data # None
    /\ shown # None
    /\ Len(data) = 2
    /\ Len(shown) = 1
    /\ species_filter # <<>>
    /\ longitudinal_filter = "No"

====
